---- MODULE Spec2Model ----
(***************************************************************************)
(* Model of ConsensusInner (consensus/src/consensus/inner/mod.rs): the     *)
(* memory pool's admission (insert_into_mempool) and rebuild               *)
(* (cleanse_memory_pool), and the fork scanner (scan_forks); and of the     *)
(* SyncHandler that network/tests/sync_integration.rs drives.              *)
(***************************************************************************)
EXTENDS Integers, Sequences, FiniteSets, TLC

VARIABLES
    ledger,        \* ConsensusInner.ledger: what the canonical ledger contains
    memory_pool,   \* ConsensusInner.memory_pool: the four collections
    last,          \* the last completed call: operation, argument, pool before, result
    tasks,         \* each calling task: where it is in its call, and the call's locals
    borrower,      \* the task holding `&mut self` of the ConsensusInner, or "none"
    storage,       \* ConsensusInner.storage: the canon chain and each block's children
    scanned,       \* what the last scan_forks returned, NoScan before the first
    sync_handler,  \* SyncHandler: block_headers, the syncing flag and its height
    channel,       \* the requests the peer channel has accepted, oldest first
    answered,      \* how many of them the peer has answered
    stepped        \* the last step of the session: handler and channel before, outcome

poolVars == <<ledger, memory_pool, last>>
taskVars == <<tasks, borrower>>
forkVars == <<storage, scanned>>
syncVars == <<sync_handler, channel, answered, stepped>>
vars ==
    <<ledger, memory_pool, last, tasks, borrower, storage, scanned,
      sync_handler, channel, answered, stepped>>

\* ------------------------------------------------------------ universe

\* Ledger commits (blocks landing) in one run.
MaxCommits == 1

Memos == {"m1", "m2"}
Digests == {"d1", "d2"}

\* The serial-number lists and commitment lists a submitted transaction may
\* carry: one element, two distinct elements, one element twice.
SerialLists == {<<"s1">>, <<"s2">>, <<"s1", "s2">>, <<"s1", "s1">>}
CommitmentLists == {<<"c1">>, <<"c2">>, <<"c1", "c2">>, <<"c2", "c2">>}

Range(s) == {s[i] : i \in DOMAIN s}

\* SerialTransaction: id, old_serial_numbers, new_commitments, memorandum.
\* The id is a field of the record: the code reads it and never recomputes it.
SerialTransaction ==
    [id : Digests,
     old_serial_numbers : SerialLists,
     new_commitments : CommitmentLists,
     memorandum : Memos]

\* MemoryPool::default(): the value std::mem::take leaves behind.
EmptyPool ==
    [transactions |-> <<>>, serial_numbers |-> {}, commitments |-> {}, memos |-> {}]

EmptyLedger == [serial_numbers |-> {}, commitments |-> {}, memos |-> {}]

\* Result<Option<Digest>, ConsensusError> and Result<(), ConsensusError>.
OkNone == [tag |-> "Ok", value |-> "None"]
OkSome(d) == [tag |-> "Ok", value |-> d]
OkUnit == [tag |-> "Ok", value |-> "Unit"]
Err(e) == [tag |-> "Err", value |-> e]

\* ------------------------------------------------------------ helpers

\* snarkvm_utilities::has_duplicates: some element occurs twice.
has_duplicates(s) == \E i, j \in DOMAIN s : i < j /\ s[i] = s[j]

\* memory_pool.transactions.contains_key(&transaction_id)
contains_key(transactions, d) == \E i \in DOMAIN transactions : transactions[i].id = d

\* ledger.contains_serial / contains_commitment / contains_memo
contains_serial(l, sn) == sn \in l.serial_numbers
contains_commitment(l, cm) == cm \in l.commitments
contains_memo(l, memo) == memo \in l.memos

\* ------------------------------------------------------------ admit

\* Line 112: `return Ok(None)`, the value of every rejection.
Rejection_as_error == Err("invalid transaction")

Rejection == OkNone

\* Lines 108-110: an internal duplicate, or a digest the pool already holds.
malformed_or_known(pool, transaction) ==
    \/ has_duplicates(transaction.old_serial_numbers)
    \/ has_duplicates(transaction.new_commitments)
    \/ contains_key(pool.transactions, transaction.id)

\* Line 116: the serial number is spent on the ledger or reserved in the pool.
serial_conflict_ledger_only(l, pool, sn) == contains_serial(l, sn)

serial_conflict(l, pool, sn) ==
    contains_serial(l, sn) \/ sn \in pool.serial_numbers

\* Line 122: the commitment is on the ledger or reserved in the pool.
commitment_conflict_pool_only(l, pool, cm) == cm \in pool.commitments

commitment_conflict(l, pool, cm) ==
    contains_commitment(l, cm) \/ cm \in pool.commitments

\* Lines 127-128: the memorandum is on the ledger or reserved in the pool.
memo_conflict_pool_only(l, pool, memo) == memo \in pool.memos

memo_conflict(l, pool, memo) ==
    contains_memo(l, memo) \/ memo \in pool.memos

\* Lines 133-148: reserve every serial number, every commitment and the
\* memorandum, and insert the entry under its digest.
Reserve(pool, transaction) ==
    [transactions |-> Append(pool.transactions, transaction),
     serial_numbers |-> pool.serial_numbers \cup Range(transaction.old_serial_numbers),
     commitments |-> pool.commitments \cup Range(transaction.new_commitments),
     memos |-> pool.memos \cup {transaction.memorandum}]

\* insert_into_mempool with the serial numbers reserved as soon as they have
\* passed their own check, before the commitments and the memorandum are looked at.
insert_into_mempool_eager(l, pool, transaction) ==
    LET reserved == [pool EXCEPT !.serial_numbers =
                        @ \cup Range(transaction.old_serial_numbers)]
    IN  IF malformed_or_known(pool, transaction)
        THEN [memory_pool |-> pool, result |-> Rejection]
        ELSE IF \E i \in DOMAIN transaction.old_serial_numbers :
                   serial_conflict(l, pool, transaction.old_serial_numbers[i])
        THEN [memory_pool |-> pool, result |-> Rejection]
        ELSE IF \/ \E i \in DOMAIN transaction.new_commitments :
                      commitment_conflict(l, pool, transaction.new_commitments[i])
                \/ memo_conflict(l, pool, transaction.memorandum)
        THEN [memory_pool |-> reserved, result |-> Rejection]
        ELSE [memory_pool |-> Reserve(pool, transaction),
              result |-> OkSome(transaction.id)]

\* insert_into_mempool: the pool after the call and the value returned.
insert_into_mempool(l, pool, transaction) ==
    LET transaction_id == transaction.id
        rejected == [memory_pool |-> pool, result |-> Rejection]
    IN  IF malformed_or_known(pool, transaction)
        THEN rejected
        ELSE IF \E i \in DOMAIN transaction.old_serial_numbers :
                   serial_conflict(l, pool, transaction.old_serial_numbers[i])
        THEN rejected
        ELSE IF \E i \in DOMAIN transaction.new_commitments :
                   commitment_conflict(l, pool, transaction.new_commitments[i])
        THEN rejected
        ELSE IF memo_conflict(l, pool, transaction.memorandum)
        THEN rejected
        ELSE [memory_pool |-> Reserve(pool, transaction),
              result |-> OkSome(transaction_id)]

\* ------------------------------------------------------------ cleanse

\* The orders in which `for (_, entry) in &old_mempool.transactions` may visit
\* n entries: the map's type is declared outside this file, so every order
\* is allowed.
IterationOrders(n) ==
    {p \in [1..n -> 1..n] : \A i, j \in 1..n : i # j => p[i] # p[j]}

\* The newest entry first.
ReverseInsertionOrder(n) == [i \in 1..n |-> n + 1 - i]

\* The order of line 157 when the map keeps its entries in the order they
\* were inserted.
InsertionOrder(n) == [i \in 1..n |-> i]

\* The loop of lines 157-162 leaving out the last entry it should visit.
RECURSIVE cleanse_loop_short(_, _, _, _, _)
cleanse_loop_short(l, old_mempool, pool, order, k) ==
    IF k >= Len(order)
    THEN [memory_pool |-> pool, result |-> OkUnit]
    ELSE LET entry == old_mempool.transactions[order[k]]
             r == insert_into_mempool(l, pool, entry)
         IN  IF r.result.tag = "Err"
             THEN [memory_pool |-> old_mempool, result |-> r.result]
             ELSE cleanse_loop_short(l, old_mempool, r.memory_pool, order, k + 1)

\* Lines 157-162, from the k-th visited entry on: re-admit into the current
\* pool; on Err put the old pool back and return the error.
RECURSIVE cleanse_loop(_, _, _, _, _)
cleanse_loop(l, old_mempool, pool, order, k) ==
    IF k > Len(order)
    THEN [memory_pool |-> pool, result |-> OkUnit]
    ELSE LET entry == old_mempool.transactions[order[k]]
             r == insert_into_mempool(l, pool, entry)
         IN  IF r.result.tag = "Err"
             THEN [memory_pool |-> old_mempool, result |-> r.result]
             ELSE cleanse_loop(l, old_mempool, r.memory_pool, order, k + 1)

\* The pool left in place with only its transaction map emptied.
TakenPool_keeps_reservations(pool) == [pool EXCEPT !.transactions = <<>>]

\* The pool left in place untouched.
TakenPool_not_taken(pool) == pool

\* Line 155: std::mem::take leaves an empty pool to re-admit into.
TakenPool(pool) == EmptyPool

\* cleanse_memory_pool: the pool after the call and the value returned.
cleanse_memory_pool(l, pool, order) ==
    LET old_mempool == pool
    IN  cleanse_loop(l, old_mempool, TakenPool(pool), order, 1)

\* ------------------------------------------------------------ scan_forks

\* Blocks known to the storage; a block's hash is its number.
NumBlocks == 5

\* crate::OLDEST_FORK_THRESHOLD (line 71), scaled to the chains of the model.
OLDEST_FORK_THRESHOLD == 3

Hashes == 1..NumBlocks

Min(a, b) == IF a < b THEN a ELSE b

\* The elements of a set of hashes as a sequence, ascending or descending.
RECURSIVE Sorted(_, _)
Sorted(S, ascending) ==
    IF S = {}
    THEN <<>>
    ELSE LET x == CHOOSE y \in S : \A z \in S : IF ascending THEN y <= z ELSE y >= z
         IN  <<x>> \o Sorted(S \ {x}, ascending)

\* The ancestors of block h under a parent map, h first (0: no known parent).
RECURSIVE PathToRoot(_, _, _)
PathToRoot(parent, h, fuel) ==
    IF h = 0 \/ fuel = 0 THEN <<>> ELSE <<h>> \o PathToRoot(parent, parent[h], fuel - 1)

\* Parent maps of a block tree: block 1 is the genesis block, and every other
\* block reaches it through its ancestors.
ParentMaps ==
    {parent \in [Hashes -> 0..NumBlocks] :
        /\ parent[1] = 0
        /\ \A h \in Hashes :
              LET path == PathToRoot(parent, h, NumBlocks + 1)
              IN  Len(path) <= NumBlocks /\ path[Len(path)] = 1}

\* The storage of a block tree: each block's children in the order the
\* storage lists them, the canon chain (newest first) from the tip down to
\* the genesis block, empty when no block is canon, and the storage call
\* that fails, if any.
StorageOf(parent, tip, ascending, failing) ==
    [canon |-> IF tip = 0 THEN <<>> ELSE PathToRoot(parent, tip, NumBlocks),
     children |-> [h \in Hashes |-> Sorted({c \in Hashes : parent[c] = h}, ascending)],
     failing |-> failing]

StorageCalls == {"get_block_hashes", "get_block_children"}

\* No scan_forks has returned yet.
NoScan == [tag |-> "None", value |-> <<>>, queried |-> <<>>]

EmptyStorage == [canon |-> <<>>, children |-> [h \in Hashes |-> <<>>], failing |-> "none"]

\* storage.get_block_hashes(Some(limit), CanonOnly(Descending)): the newest
\* `limit` canon hashes, newest first.
get_block_hashes(st, limit) ==
    IF st.failing = "get_block_hashes"
    THEN Err("storage")
    ELSE [tag |-> "Ok", value |-> SubSeq(st.canon, 1, Min(limit, Len(st.canon)))]

\* storage.get_block_children(hash)
get_block_children(st, hash) ==
    IF st.failing = "get_block_children"
    THEN Err("storage")
    ELSE [tag |-> "Ok", value |-> st.children[hash]]

\* Lines 91-95 with each record put in front of the ones found before.
RECURSIVE push_forks_in_front(_, _, _, _, _)
push_forks_in_front(known_forks, target_hash, ignore_child_hash, children, k) ==
    IF k > Len(children)
    THEN known_forks
    ELSE push_forks_in_front(IF children[k] # ignore_child_hash
                             THEN <<(<<target_hash, children[k]>>)>> \o known_forks
                             ELSE known_forks,
                             target_hash, ignore_child_hash, children, k + 1)

\* Lines 91-95: push (target, child) for every child other than the canon one.
RECURSIVE push_forks(_, _, _, _, _)
push_forks(known_forks, target_hash, ignore_child_hash, children, k) ==
    IF k > Len(children)
    THEN known_forks
    ELSE push_forks(IF children[k] # ignore_child_hash
                    THEN Append(known_forks, <<target_hash, children[k]>>)
                    ELSE known_forks,
                    target_hash, ignore_child_hash, children, k + 1)

\* Line 85: the older hash of the pair is the one whose children are read.
target_of_newer(window) == window[1]

target_of(window) == window[2]

\* Line 86: the newer hash of the pair is the child that is not a fork.
ignore_child_of_none(window) == 0

ignore_child_of(window) == window[1]

\* Lines 83-96: the loop over canon_hashes.windows(2), from the i-th pair on.
\* `queried` lists the blocks whose children the scan has asked the storage for.
RECURSIVE scan_windows(_, _, _, _, _)
scan_windows(st, canon_hashes, i, known_forks, queried) ==
    IF i + 1 > Len(canon_hashes)
    THEN [tag |-> "Ok", value |-> known_forks, queried |-> queried]
    ELSE LET window == SubSeq(canon_hashes, i, i + 1)
             target_hash == target_of(window)
             ignore_child_hash == ignore_child_of(window)
             children == get_block_children(st, target_hash)
             asked == Append(queried, target_hash)
         IN  IF children.tag = "Err"
             THEN [tag |-> "Err", value |-> children.value, queried |-> asked]
             ELSE IF Len(children.value) = 1 /\ children.value[1] = ignore_child_hash
             THEN scan_windows(st, canon_hashes, i + 1, known_forks, asked)
             ELSE scan_windows(st, canon_hashes, i + 1,
                               push_forks(known_forks, target_hash, ignore_child_hash,
                                          children.value, 1),
                               asked)

\* Line 78 with an error in place of the empty result.
no_window_result_as_error == [tag |-> "Err", value |-> "no window", queried |-> <<>>]

\* Line 78: `return Ok(vec![])`, before any block's children are asked for.
no_window_result == [tag |-> "Ok", value |-> <<>>, queried |-> <<>>]

\* scan_forks: the value returned, and the children queries made on the way.
scan_forks(st) ==
    LET canon_hashes == get_block_hashes(st, OLDEST_FORK_THRESHOLD)
    IN  IF canon_hashes.tag = "Err"
        THEN [tag |-> "Err", value |-> canon_hashes.value, queried |-> <<>>]
        ELSE IF Len(canon_hashes.value) < 2
        THEN no_window_result
        ELSE scan_windows(st, canon_hashes.value, 1, <<>>, <<>>)

\* ------------------------------------------------------------ sync handler

\* Header digests a session holds at once.
MaxQueue == 2

\* Requests the peer channel accepts in one run.
MaxWrites == 3

\* The heights update_syncing is called with.
SyncHeights == {0, 1}

\* Protocol messages: a name and a payload.
GetBlock(block_hash) == [name |-> "GetBlock", payload |-> <<block_hash>>]
GetSync(block_locator_hashes) == [name |-> "GetSync", payload |-> block_locator_hashes]

\* SyncHandler::new(bootnode_address): no headers, not syncing.
NewSyncHandler == [block_headers |-> <<>>, syncing |-> FALSE, block_height |-> 0]

\* sync_handler.block_headers.push(block_hash)
push(h, block_hash) == [h EXCEPT !.block_headers = Append(@, block_hash)]

\* update_syncing(height): the session is active at that height; the queued
\* headers stay.
update_syncing(h, height) == [h EXCEPT !.syncing = TRUE, !.block_height = height]

\* A cancelled session is idle: empty queue, syncing = false.
cancel(h) == [h EXCEPT !.block_headers = <<>>, !.syncing = FALSE]

starting_hashes_from_height(h) == [i \in 1..(h.block_height + 1) |-> "d1"]

\* The starting point of a hash-range request: empty.
starting_hashes(h) == <<>>

outbound_twice(h) ==
    IF h.block_headers # <<>>
    THEN <<GetBlock(Head(h.block_headers)), GetSync(starting_hashes(h))>>
    ELSE <<GetSync(starting_hashes(h)), GetSync(starting_hashes(h))>>

\* The requests one increment writes to the channel: a block request for the
\* head of the queue; with an empty queue and syncing active a hash-range
\* request; otherwise none.
outbound(h) ==
    IF h.block_headers # <<>>
    THEN <<GetBlock(Head(h.block_headers))>>
    ELSE IF h.syncing
    THEN <<GetSync(starting_hashes(h))>>
    ELSE <<>>

advance_keeps_head(h) == h

\* The head of the queue is popped; an empty queue stays.
advance(h) ==
    IF h.block_headers # <<>> THEN [h EXCEPT !.block_headers = Tail(@)] ELSE h

failed_send_drops_head(h, ch, requests) ==
    [handler |-> advance(h), channel |-> ch, result |-> Err("send"),
     attempted |-> requests]

\* The channel refused the write: the error goes to the caller, the session
\* is as it was.
failed_send(h, ch, requests) ==
    [handler |-> h, channel |-> ch, result |-> Err("send"), attempted |-> requests]

\* increment(channel, storage); accepts: whether the channel takes the write.
increment(h, ch, accepts) ==
    LET requests == outbound(h)
    IN  IF requests = <<>>
        THEN [handler |-> h, channel |-> ch, result |-> OkUnit, attempted |-> <<>>]
        ELSE IF ~accepts
        THEN failed_send(h, ch, requests)
        ELSE [handler |-> advance(h), channel |-> ch \o requests, result |-> OkUnit,
              attempted |-> requests]

NoStep ==
    [op |-> "none", before |-> NewSyncHandler, written |-> <<>>, attempted |-> <<>>,
     result |-> OkUnit, retry_of |-> <<>>]

InitSync ==
    /\ sync_handler = NewSyncHandler
    /\ channel = <<>>
    /\ answered = 0
    /\ stepped = NoStep

\* ------------------------------------------------------------ actions

NoCall ==
    [op |-> "none", tx |-> "none", old_mempool |-> EmptyPool, result |-> OkUnit,
     order |-> <<>>]

\* The tasks that call into the ConsensusInner.
Tasks == {"t1", "t2"}

Idle ==
    [pc |-> "idle", op |-> "none", tx |-> "none", passed |-> FALSE,
     old_mempool |-> EmptyPool, result |-> OkUnit, waited |-> FALSE]

Init ==
    /\ ledger = EmptyLedger
    /\ memory_pool = EmptyPool
    /\ last = NoCall
    /\ tasks = [t \in Tasks |-> Idle]
    /\ borrower = "none"
    /\ storage = EmptyStorage
    /\ scanned = NoScan
    /\ InitSync

Admit(transaction) ==
    LET r == insert_into_mempool(ledger, memory_pool, transaction)
    IN  /\ memory_pool' = r.memory_pool
        /\ last' = [op |-> "admit", tx |-> transaction,
                    old_mempool |-> memory_pool, result |-> r.result, order |-> <<>>]
        /\ UNCHANGED <<ledger, taskVars, forkVars, syncVars>>

Cleanse(order) ==
    LET r == cleanse_memory_pool(ledger, memory_pool, order)
    IN  /\ memory_pool' = r.memory_pool
        /\ last' = [op |-> "cleanse", tx |-> "none",
                    old_mempool |-> memory_pool, result |-> r.result, order |-> order]
        /\ UNCHANGED <<ledger, taskVars, forkVars, syncVars>>

\* A block lands: the ledger gains the serial numbers, commitments and
\* memorandum of a transaction that was valid against it.
LedgerCommit(transaction) ==
    /\ Cardinality(ledger.memos) < MaxCommits
    /\ ~has_duplicates(transaction.old_serial_numbers)
    /\ ~has_duplicates(transaction.new_commitments)
    /\ Range(transaction.old_serial_numbers) \cap ledger.serial_numbers = {}
    /\ Range(transaction.new_commitments) \cap ledger.commitments = {}
    /\ transaction.memorandum \notin ledger.memos
    /\ ledger' = [serial_numbers |-> ledger.serial_numbers
                                       \cup Range(transaction.old_serial_numbers),
                  commitments |-> ledger.commitments
                                       \cup Range(transaction.new_commitments),
                  memos |-> ledger.memos \cup {transaction.memorandum}]
    /\ last' = NoCall
    /\ UNCHANGED <<memory_pool, taskVars, forkVars, syncVars>>

AdmitAny == \E transaction \in SerialTransaction : Admit(transaction)

CleanseAny == \E order \in IterationOrders(Len(memory_pool.transactions)) : Cleanse(order)

LedgerCommitAny == \E transaction \in SerialTransaction : LedgerCommit(transaction)

Next == AdmitAny \/ CleanseAny \/ LedgerCommitAny

Spec == Init /\ [][Next]_vars

\* The same program with a transaction map that iterates in insertion order.
CleanseInOrder == Cleanse(InsertionOrder(Len(memory_pool.transactions)))

NextOrdered == AdmitAny \/ CleanseInOrder \/ LedgerCommitAny

SpecOrdered == Init /\ [][NextOrdered]_vars

\* ------------------------------------------------------------ concurrent callers

\* The transactions the concurrent callers submit.
ConcurrentTransactions ==
    {t \in SerialTransaction :
        /\ ~has_duplicates(t.old_serial_numbers)
        /\ Len(t.new_commitments) = 1}

\* `&mut self` (lines 103, 154) with no exclusion at all.
Exclusive_not_enforced(t) == TRUE

\* `&mut self` (lines 103, 154): a call runs only while no other call holds
\* the ConsensusInner.
Exclusive(t) == borrower = "none"

\* A task decides to call insert_into_mempool(transaction) or
\* cleanse_memory_pool(); the call starts once it has exclusive access.
Call(t, op, transaction) ==
    /\ tasks[t].pc = "idle"
    /\ tasks' = [tasks EXCEPT ![t] = [Idle EXCEPT !.pc = "calling", !.op = op,
                                                 !.tx = transaction]]
    /\ UNCHANGED <<poolVars, borrower, forkVars, syncVars>>

\* Lines 106-131: the checks of insert_into_mempool against the pool as it is.
AdmitCheck(t) ==
    /\ tasks[t].pc = "calling"
    /\ tasks[t].op = "admit"
    /\ Exclusive(t)
    /\ borrower' = t
    /\ tasks' = [u \in Tasks |->
                    IF u = t
                    THEN [tasks[t] EXCEPT
                            !.pc = "checked",
                            !.passed = insert_into_mempool(ledger, memory_pool,
                                           tasks[t].tx).result # Rejection]
                    ELSE IF tasks[u].pc = "calling"
                    THEN [tasks[u] EXCEPT !.waited = TRUE]
                    ELSE tasks[u]]
    /\ UNCHANGED <<poolVars, forkVars, syncVars>>

\* Lines 112-131 (return Ok(None)) or 133-150 (reserve, insert, return the digest).
AdmitReserve(t) ==
    /\ tasks[t].pc = "checked"
    /\ memory_pool' = IF tasks[t].passed
                      THEN Reserve(memory_pool, tasks[t].tx)
                      ELSE memory_pool
    /\ tasks' = [tasks EXCEPT ![t] =
                    [@ EXCEPT !.pc = "done",
                              !.result = IF tasks[t].passed
                                         THEN OkSome(tasks[t].tx.id)
                                         ELSE Rejection]]
    /\ borrower' = IF borrower = t THEN "none" ELSE borrower
    /\ UNCHANGED <<ledger, last, forkVars, syncVars>>

\* Line 155: take the pool, leaving an empty one.
CleanseTake(t) ==
    /\ tasks[t].pc = "calling"
    /\ tasks[t].op = "cleanse"
    /\ Exclusive(t)
    /\ borrower' = t
    /\ memory_pool' = TakenPool(memory_pool)
    /\ tasks' = [u \in Tasks |->
                    IF u = t
                    THEN [tasks[t] EXCEPT !.pc = "taken", !.old_mempool = memory_pool]
                    ELSE IF tasks[u].pc = "calling"
                    THEN [tasks[u] EXCEPT !.waited = TRUE]
                    ELSE tasks[u]]
    /\ UNCHANGED <<ledger, last, forkVars, syncVars>>

\* Lines 157-164: re-admit the taken entries into the pool.
CleanseReadmit(t, order) ==
    /\ tasks[t].pc = "taken"
    /\ LET r == cleanse_loop(ledger, tasks[t].old_mempool, memory_pool, order, 1)
       IN  /\ memory_pool' = r.memory_pool
           /\ tasks' = [tasks EXCEPT ![t] =
                           [@ EXCEPT !.pc = "done", !.result = r.result,
                                     !.old_mempool = EmptyPool]]
    /\ borrower' = IF borrower = t THEN "none" ELSE borrower
    /\ UNCHANGED <<ledger, last, forkVars, syncVars>>

\* The caller has its result and goes on to other work.
Return(t) ==
    /\ tasks[t].pc = "done"
    /\ tasks' = [tasks EXCEPT ![t] = Idle]
    /\ UNCHANGED <<poolVars, borrower, forkVars, syncVars>>

CallAdmit == \E t \in Tasks, transaction \in ConcurrentTransactions :
                Call(t, "admit", transaction)

CallCleanse == \E t \in Tasks : Call(t, "cleanse", "none")

AdmitCheckAny == \E t \in Tasks : AdmitCheck(t)

AdmitReserveAny == \E t \in Tasks : AdmitReserve(t)

CleanseTakeAny == \E t \in Tasks : CleanseTake(t)

CleanseReadmitAny ==
    \E t \in Tasks :
        \E order \in IterationOrders(Len(tasks[t].old_mempool.transactions)) :
            CleanseReadmit(t, order)

ReturnAny == \E t \in Tasks : Return(t)

NextConc ==
    \/ CallAdmit
    \/ CallCleanse
    \/ AdmitCheckAny
    \/ AdmitReserveAny
    \/ CleanseTakeAny
    \/ CleanseReadmitAny
    \/ ReturnAny

SpecConc == Init /\ [][NextConc]_vars

\* ------------------------------------------------------------ fork scan

InitForks ==
    /\ ledger = EmptyLedger
    /\ memory_pool = EmptyPool
    /\ last = NoCall
    /\ tasks = [t \in Tasks |-> Idle]
    /\ borrower = "none"
    /\ \E parent \in ParentMaps, tip \in 0..NumBlocks, ascending \in BOOLEAN,
          failing \in {"none"} \cup StorageCalls :
            storage = StorageOf(parent, tip, ascending, failing)
    /\ scanned = NoScan
    /\ InitSync

ScanForks ==
    /\ scanned' = scan_forks(storage)
    /\ UNCHANGED <<poolVars, taskVars, storage, syncVars>>

NextForks == ScanForks

SpecForks == InitForks /\ [][NextForks]_vars

\* ------------------------------------------------------------ sync session

Step(op) ==
    [op |-> op, before |-> sync_handler, written |-> channel, attempted |-> <<>>,
     result |-> OkUnit, retry_of |-> <<>>]

PushHeader(block_hash) ==
    /\ Len(sync_handler.block_headers) < MaxQueue
    /\ sync_handler' = push(sync_handler, block_hash)
    /\ stepped' = Step("push")
    /\ UNCHANGED <<poolVars, taskVars, forkVars, channel, answered>>

UpdateSyncing(height) ==
    /\ sync_handler' = update_syncing(sync_handler, height)
    /\ stepped' = Step("update_syncing")
    /\ UNCHANGED <<poolVars, taskVars, forkVars, channel, answered>>

Increment(accepts) ==
    LET r == increment(sync_handler, channel, accepts)
    IN  /\ Len(r.channel) <= MaxWrites
        /\ sync_handler' = r.handler
        /\ channel' = r.channel
        /\ stepped' = [op |-> "increment", before |-> sync_handler, written |-> channel,
                       attempted |-> r.attempted, result |-> r.result,
                       retry_of |-> IF stepped.op = "increment" /\ stepped.result.tag = "Err"
                                    THEN stepped.attempted ELSE <<>>]
        /\ UNCHANGED <<poolVars, taskVars, forkVars, answered>>

Cancel ==
    /\ sync_handler' = cancel(sync_handler)
    /\ stepped' = Step("cancel")
    /\ UNCHANGED <<poolVars, taskVars, forkVars, channel, answered>>

\* The peer answers the oldest unanswered request; its answer is applied by
\* the inbound handler, not by increment.
PeerAnswer ==
    /\ answered < Len(channel)
    /\ answered' = answered + 1
    /\ stepped' = Step("inbound")
    /\ UNCHANGED <<poolVars, taskVars, forkVars, sync_handler, channel>>

PushHeaderAny == \E block_hash \in Digests : PushHeader(block_hash)

UpdateSyncingAny == \E height \in SyncHeights : UpdateSyncing(height)

IncrementAny == \E accepts \in BOOLEAN : Increment(accepts)

NextSync ==
    \/ PushHeaderAny
    \/ UpdateSyncingAny
    \/ IncrementAny
    \/ Cancel
    \/ PeerAnswer

SpecSync == Init /\ [][NextSync]_vars

\* ------------------------------------------------------------ claims

Stored(pool) == Range(pool.transactions)

SerialsOf(t) == Range(t.old_serial_numbers)
CommitmentsOf(t) == Range(t.new_commitments)

\* Two transactions share a serial number, a commitment or the memorandum.
Overlap(t1, t2) ==
    \/ SerialsOf(t1) \cap SerialsOf(t2) # {}
    \/ CommitmentsOf(t1) \cap CommitmentsOf(t2) # {}
    \/ t1.memorandum = t2.memorandum

\* A serial number, a commitment or the memorandum of t is on the ledger.
OnLedger(t) ==
    \/ SerialsOf(t) \cap ledger.serial_numbers # {}
    \/ CommitmentsOf(t) \cap ledger.commitments # {}
    \/ t.memorandum \in ledger.memos

\* The pool held, before the last admit, a transaction other than the
\* submitted one that overlaps it.
AdmitOverlapsStored ==
    /\ last.op = "admit"
    /\ \E t1 \in Stored(last.old_mempool) : t1 # last.tx /\ Overlap(t1, last.tx)

\* C1: no two distinct transactions held in the pool share a serial number, a
\* commitment or a memorandum; an admit of a transaction that overlaps another
\* transaction of the pool returns "not admitted" and leaves it out of the pool.
C1_NoOverlapInPool ==
    /\ \A i, j \in DOMAIN memory_pool.transactions :
          i # j => /\ memory_pool.transactions[i] # memory_pool.transactions[j]
                   /\ ~Overlap(memory_pool.transactions[i], memory_pool.transactions[j])
    /\ AdmitOverlapsStored =>
          /\ last.result = OkNone
          /\ last.tx \notin Stored(memory_pool)

\* The scenario of the spec: a second transaction sharing only a serial number
\* with the single stored one is turned away, and the pool keeps one entry.
C1_Witness ==
    /\ AdmitOverlapsStored
    /\ Len(last.old_mempool.transactions) = 1
    /\ LET t1 == last.old_mempool.transactions[1]
       IN  /\ SerialsOf(t1) \cap SerialsOf(last.tx) # {}
           /\ CommitmentsOf(t1) \cap CommitmentsOf(last.tx) = {}
           /\ t1.memorandum # last.tx.memorandum
           /\ t1.id # last.tx.id
    /\ last.result = OkNone
    /\ Len(memory_pool.transactions) = 1

\* The admission condition as the claim words it, on the pool before the call.
Admissible(pool, t) ==
    /\ Cardinality(SerialsOf(t)) = Len(t.old_serial_numbers)
    /\ Cardinality(CommitmentsOf(t)) = Len(t.new_commitments)
    /\ t.id \notin {u.id : u \in Stored(pool)}
    /\ SerialsOf(t) \cap (ledger.serial_numbers \cup pool.serial_numbers) = {}
    /\ CommitmentsOf(t) \cap (ledger.commitments \cup pool.commitments) = {}
    /\ t.memorandum \notin (ledger.memos \cup pool.memos)

\* C2: admit returns the digest and inserts the transaction exactly when it
\* has no internal duplicate, its digest is new to the pool and nothing of it is
\* on the ledger or reserved in the pool; otherwise it returns "not admitted".
C2_AdmitExactlyWhenAdmissible ==
    last.op = "admit" =>
        IF Admissible(last.old_mempool, last.tx)
        THEN /\ last.result = OkSome(last.tx.id)
             /\ memory_pool.transactions = Append(last.old_mempool.transactions, last.tx)
        ELSE /\ last.result = OkNone
             /\ memory_pool.transactions = last.old_mempool.transactions

\* A transaction is admitted beside a stored one while the ledger is not empty.
C2_Witness ==
    /\ last.op = "admit"
    /\ Admissible(last.old_mempool, last.tx)
    /\ Len(last.old_mempool.transactions) = 1
    /\ ledger.memos # {}
    /\ last.result = OkSome(last.tx.id)

\* C3: an admit that returns "not admitted" leaves the transaction map, the
\* reserved serial numbers, commitments and memoranda as they were.
C3_RejectionChangesNothing ==
    (last.op = "admit" /\ last.result = OkNone) =>
        /\ memory_pool.transactions = last.old_mempool.transactions
        /\ Len(memory_pool.transactions) = Len(last.old_mempool.transactions)
        /\ memory_pool.serial_numbers = last.old_mempool.serial_numbers
        /\ memory_pool.commitments = last.old_mempool.commitments
        /\ memory_pool.memos = last.old_mempool.memos

\* A rejection at the last check: the serial numbers are free, a commitment
\* or the memorandum is not, and the pool is not empty.
C3_Witness ==
    /\ last.op = "admit"
    /\ last.result = OkNone
    /\ ~malformed_or_known(last.old_mempool, last.tx)
    /\ SerialsOf(last.tx) \cap (ledger.serial_numbers \cup last.old_mempool.serial_numbers) = {}
    /\ last.old_mempool.transactions # <<>>

\* C4: the reserved serial numbers, commitments and memoranda are exactly
\* those of the stored transactions.
C4_ReservationsMatchStored ==
    /\ memory_pool.serial_numbers = UNION {SerialsOf(t) : t \in Stored(memory_pool)}
    /\ memory_pool.commitments = UNION {CommitmentsOf(t) : t \in Stored(memory_pool)}
    /\ memory_pool.memos = {t.memorandum : t \in Stored(memory_pool)}

\* A cleanse has dropped one stored transaction and kept another.
C4_Witness ==
    /\ last.op = "cleanse"
    /\ Len(last.old_mempool.transactions) = 2
    /\ Len(memory_pool.transactions) = 1
    /\ memory_pool.serial_numbers # last.old_mempool.serial_numbers

DigestsOf(pool) == {t.id : t \in Stored(pool)}

SameObservably(p, q) ==
    /\ DigestsOf(p) = DigestsOf(q)
    /\ p.serial_numbers = q.serial_numbers
    /\ p.commitments = q.commitments
    /\ p.memos = q.memos

\* C6 as stated: every cleanse re-admits all stored transactions and leaves
\* the digests and the three reservation sets as they were.
C6_CleanseKeepsEverything ==
    last.op = "cleanse" =>
        /\ Len(memory_pool.transactions) = Len(last.old_mempool.transactions)
        /\ SameObservably(memory_pool, last.old_mempool)

\* C6 amended: a cleanse of a pool none of whose transactions has a serial
\* number, commitment or memorandum on the ledger re-admits all of them and
\* leaves the digests and the three reservation sets as they were.
C6_CleanseKeepsLedgerConsistentPool ==
    (last.op = "cleanse" /\ \A t \in Stored(last.old_mempool) : ~OnLedger(t)) =>
        /\ last.result = OkUnit
        /\ Len(memory_pool.transactions) = Len(last.old_mempool.transactions)
        /\ SameObservably(memory_pool, last.old_mempool)

\* A cleanse of two stored transactions, neither of them on the ledger.
C6_Witness ==
    /\ last.op = "cleanse"
    /\ Len(last.old_mempool.transactions) = 2
    /\ \A t \in Stored(last.old_mempool) : ~OnLedger(t)
    /\ Len(memory_pool.transactions) = 2

\* C8: after a successful cleanse the pool holds only transactions it held
\* before, none of them on the ledger, and every dropped transaction conflicts
\* with the ledger or with a kept one; a transaction that must be dropped
\* does not make the cleanse fail.
C8_CleanseKeepsMaximalConsistentSubset ==
    last.op = "cleanse" =>
        /\ last.result.tag = "Ok" =>
              /\ Stored(memory_pool) \subseteq Stored(last.old_mempool)
              /\ \A t \in Stored(memory_pool) : ~OnLedger(t)
              /\ \A t \in Stored(last.old_mempool) \ Stored(memory_pool) :
                    OnLedger(t) \/ \E u \in Stored(memory_pool) : Overlap(t, u)
        /\ (\E t \in Stored(last.old_mempool) : OnLedger(t)) => last.result = OkUnit

\* A successful cleanse that dropped a transaction for a serial number spent
\* on the ledger and kept the other one.
C8_Witness ==
    /\ last.op = "cleanse"
    /\ last.result = OkUnit
    /\ Len(last.old_mempool.transactions) = 2
    /\ \E t \in Stored(last.old_mempool) \ Stored(memory_pool) :
          SerialsOf(t) \cap ledger.serial_numbers # {}
    /\ \E u \in Stored(memory_pool) : u \in Stored(last.old_mempool)

\* The transaction fails one of the admission checks.
FailsACheck(pool, t) ==
    \/ \E i, j \in DOMAIN t.old_serial_numbers :
          i # j /\ t.old_serial_numbers[i] = t.old_serial_numbers[j]
    \/ \E i, j \in DOMAIN t.new_commitments :
          i # j /\ t.new_commitments[i] = t.new_commitments[j]
    \/ \E u \in Stored(pool) : u.id = t.id
    \/ OnLedger(t)
    \/ \E s \in SerialsOf(t) : s \in pool.serial_numbers
    \/ \E c \in CommitmentsOf(t) : c \in pool.commitments
    \/ t.memorandum \in pool.memos

\* C9: admit never returns an error for an invalid transaction: a transaction
\* that fails an admission check gets "not admitted", and no admit of the
\* model, where storage is consistent, returns an error.
C9_RejectionIsNotAnError ==
    last.op = "admit" =>
        /\ last.result.tag # "Err"
        /\ FailsACheck(last.old_mempool, last.tx) => last.result = OkNone

\* An admit of a transaction with a repeated serial number that is also
\* spent on the ledger, answered "not admitted".
C9_Witness ==
    /\ last.op = "admit"
    /\ OnLedger(last.tx)
    /\ Cardinality(SerialsOf(last.tx)) < Len(last.tx.old_serial_numbers)
    /\ last.result = OkNone

\* Two tasks have each completed an admit of a different transaction, the
\* two sharing a serial number or a commitment.
BothAdmitted(a, b) ==
    /\ a # b
    /\ tasks[a].pc = "done" /\ tasks[a].op = "admit"
    /\ tasks[b].pc = "done" /\ tasks[b].op = "admit"
    /\ tasks[a].tx # tasks[b].tx
    /\ \/ SerialsOf(tasks[a].tx) \cap SerialsOf(tasks[b].tx) # {}
       \/ CommitmentsOf(tasks[a].tx) \cap CommitmentsOf(tasks[b].tx) # {}

\* C5: of two tasks that admit transactions overlapping in a serial number or
\* a commitment at most one is admitted, and the pool never holds two
\* transactions that share one, whatever the interleaving of the calls.
C5_AtMostOneConcurrentAdmission ==
    /\ \A a, b \in Tasks :
          BothAdmitted(a, b) =>
              ~(tasks[a].result.value # "None" /\ tasks[b].result.value # "None")
    /\ \A i, j \in DOMAIN memory_pool.transactions :
          i # j => ~Overlap(memory_pool.transactions[i], memory_pool.transactions[j])

\* Two admits of overlapping transactions were pending at the same time (the
\* second waited for the first to finish); one was admitted, the other not.
C5_Witness ==
    \E a, b \in Tasks :
        /\ BothAdmitted(a, b)
        /\ tasks[a].tx.id # tasks[b].tx.id
        /\ tasks[a].tx.memorandum # tasks[b].tx.memorandum
        /\ tasks[b].waited
        /\ tasks[a].result = OkSome(tasks[a].tx.id)
        /\ tasks[b].result = OkNone

\* The newest-first canonical window the scan looks at.
CanonWindow ==
    [i \in 1..Min(OLDEST_FORK_THRESHOLD, Len(storage.canon)) |-> storage.canon[i]]

KnownChildren(h) == {storage.children[h][k] : k \in DOMAIN storage.children[h]}

\* The records the claim names: (hashes[i+1], c) for every known child c of
\* hashes[i+1] other than hashes[i].
ExpectedForks ==
    {r \in Hashes \X Hashes :
        \E i \in 1..(Len(CanonWindow) - 1) :
            /\ r[1] = CanonWindow[i + 1]
            /\ r[2] \in KnownChildren(r[1])
            /\ r[2] # CanonWindow[i]}

ScanReturned == scanned.tag = "Ok"

\* C10: scan_forks returns exactly the records (hashes[i+1], c), c a known
\* child of hashes[i+1] other than hashes[i], each once; a non-newest block
\* with one canonical and one other child yields exactly (B, other_child); a
\* history whose canonical blocks have only their canonical successor as
\* child yields nothing.
C10_ScanReturnsExactlyTheForks ==
    ScanReturned =>
        /\ Range(scanned.value) = ExpectedForks
        /\ Len(scanned.value) = Cardinality(ExpectedForks)
        /\ \A i \in 1..(Len(CanonWindow) - 1) :
              LET B == CanonWindow[i + 1]
              IN  (Cardinality(KnownChildren(B)) = 2 /\ CanonWindow[i] \in KnownChildren(B)) =>
                      \E other \in KnownChildren(B) \ {CanonWindow[i]} :
                          {r \in Range(scanned.value) : r[1] = B} = {<<B, other>>}
        /\ (\A i \in 1..(Len(CanonWindow) - 1) :
               KnownChildren(CanonWindow[i + 1]) = {CanonWindow[i]}) =>
              scanned.value = <<>>

\* A scan of a window of three canon blocks, the two older ones each with a
\* second child, has returned records for both.
C10_Witness ==
    /\ ScanReturned
    /\ Len(CanonWindow) = 3
    /\ Cardinality(KnownChildren(CanonWindow[2])) = 2
    /\ Cardinality(KnownChildren(CanonWindow[3])) = 2
    /\ Len(scanned.value) = 2
    /\ scanned.value[1][1] # scanned.value[2][1]

\* C11: a scan of a canonical history that yields 0 or 1 hashes returns the
\* empty sequence and asks the storage for no block's children.
C11_ShortHistoryScansNothing ==
    (scanned # NoScan /\ storage.failing # "get_block_hashes" /\ Len(CanonWindow) < 2) =>
        /\ scanned.tag = "Ok"
        /\ scanned.value = <<>>
        /\ scanned.queried = <<>>

\* A scan of a one-block canon chain has returned although every children
\* query of this storage would have failed.
C11_Witness ==
    /\ scanned.tag = "Ok"
    /\ Len(storage.canon) = 1
    /\ storage.failing = "get_block_children"
    /\ scanned.value = <<>>

\* The position of a hash in the canonical window (1: the newest block).
WindowIndex(h) == CHOOSE i \in DOMAIN CanonWindow : CanonWindow[i] = h

\* C18: the records of a scan come in the window's descending order of their
\* fork points: a record of a newer canonical block precedes every record of
\* an older one.
C18_RecordsFollowWindowOrder ==
    ScanReturned =>
        \A p, q \in DOMAIN scanned.value :
            /\ scanned.value[p][1] \in Range(CanonWindow)
            /\ (WindowIndex(scanned.value[p][1]) < WindowIndex(scanned.value[q][1])) => p < q

\* A scan has returned a record of the second canon block and, after it, a
\* record of the third.
C18_Witness ==
    /\ ScanReturned
    /\ Len(CanonWindow) = 3
    /\ Len(scanned.value) >= 2
    /\ scanned.value[1][1] = CanonWindow[2]
    /\ scanned.value[Len(scanned.value)][1] = CanonWindow[3]

\* C20: the fork point of every record is a canonical hash of the window
\* other than the newest, and the diverging child is not that block's
\* canonical successor; the scan never asks for the children of the newest
\* block, and a scan that returns has asked for those of the oldest.
C20_ForkPointsInsideWindow ==
    /\ ScanReturned =>
          /\ \A k \in DOMAIN scanned.value :
                \E i \in 2..Len(CanonWindow) :
                    /\ scanned.value[k][1] = CanonWindow[i]
                    /\ scanned.value[k][1] # CanonWindow[1]
                    /\ scanned.value[k][2] # CanonWindow[i - 1]
          /\ Len(CanonWindow) >= 2 => CanonWindow[Len(CanonWindow)] \in Range(scanned.queried)
    /\ (scanned # NoScan /\ Len(CanonWindow) >= 1) =>
          CanonWindow[1] \notin Range(scanned.queried)

\* A scan of a three-block window whose newest block has a known child and
\* whose oldest block has a fork: the only record is the oldest block's.
C20_Witness ==
    /\ ScanReturned
    /\ Len(CanonWindow) = 3
    /\ KnownChildren(CanonWindow[1]) # {}
    /\ Cardinality(KnownChildren(CanonWindow[3])) = 2
    /\ Len(scanned.value) = 1
    /\ scanned.value[1][1] = CanonWindow[3]
    /\ scanned.queried = <<CanonWindow[2], CanonWindow[3]>>

NotOnLedger(t) == ~OnLedger(t)

C19_CleanseResultIgnoresOrder ==
    (last.op = "cleanse" /\ last.result.tag = "Ok") =>
        LET kept == {t \in Stored(last.old_mempool) : ~OnLedger(t)}
        IN  /\ Stored(memory_pool) = kept
            /\ Len(memory_pool.transactions) = Cardinality(kept)
            /\ memory_pool.serial_numbers = UNION {SerialsOf(t) : t \in kept}
            /\ memory_pool.commitments = UNION {CommitmentsOf(t) : t \in kept}
            /\ memory_pool.memos = {t.memorandum : t \in kept}

\* A cleanse that visited the newer of two stored transactions first and
\* dropped one of them for a commitment that is on the ledger.
C19_Witness ==
    /\ last.op = "cleanse"
    /\ last.result = OkUnit
    /\ last.order = <<2, 1>>
    /\ Len(memory_pool.transactions) = 1
    /\ \E t \in Stored(last.old_mempool) \ Stored(memory_pool) :
          CommitmentsOf(t) \cap ledger.commitments # {}

IsIncrement == stepped.op = "increment"

Delivered == SubSeq(channel, Len(stepped.written) + 1, Len(channel))

\* C12: with a non-empty queue one increment requests the block at the head
\* of the queue and nothing else; once the channel has taken the request the
\* head is gone, the rest of the queue is as it was, and the next increment
\* requests the digest that was second.
C12_IncrementRequestsHeadOfQueue ==
    (IsIncrement /\ stepped.before.block_headers # <<>>) =>
        /\ stepped.attempted = <<GetBlock(Head(stepped.before.block_headers))>>
        /\ stepped.result.tag = "Ok" =>
              /\ channel = stepped.written \o stepped.attempted
              /\ sync_handler.block_headers = Tail(stepped.before.block_headers)
              /\ Len(stepped.before.block_headers) > 1 =>
                    outbound(sync_handler) = <<GetBlock(stepped.before.block_headers[2])>>

\* An increment with two different queued headers has requested the first
\* and left the second.
C12_Witness ==
    /\ IsIncrement
    /\ stepped.before.block_headers = <<"d2", "d1">>
    /\ stepped.result.tag = "Ok"
    /\ Delivered = <<GetBlock("d2")>>
    /\ sync_handler.block_headers = <<"d1">>

\* C13: with an empty queue and syncing active one increment requests one
\* hash range with an empty starting sequence, and no block.
C13_IncrementRequestsHashRange ==
    (IsIncrement /\ stepped.before.block_headers = <<>> /\ stepped.before.syncing) =>
        /\ stepped.attempted = <<[name |-> "GetSync", payload |-> <<>>]>>
        /\ Delivered = IF stepped.result.tag = "Ok" THEN stepped.attempted ELSE <<>>
        /\ channel = stepped.written \o Delivered
        /\ \A i \in DOMAIN Delivered : Delivered[i].name # "GetBlock"

\* After update_syncing(1) on an empty queue an increment has written a
\* GetSync to the channel.
C13_Witness ==
    /\ IsIncrement
    /\ stepped.before.block_headers = <<>>
    /\ stepped.before.syncing
    /\ stepped.before.block_height = 1
    /\ stepped.result.tag = "Ok"
    /\ Len(Delivered) = 1
    /\ Delivered[1].name = "GetSync"

====
